---- MODULE Spec2Model ----
(***************************************************************************)
(* A model of the sn library: the column type inference to_sqla and the    *)
(* schema reflection SNDF.reflect of sn/dataframe.py.                       *)
(*                                                                         *)
(* A pandas Series is modelled by its storage dtype and its values; the    *)
(* pandas primitives that the code calls (Series construction, notna,      *)
(* lib.infer_dtype, the .dt accessor) are modelled by what pandas does for  *)
(* such a Series.                                                          *)
(***************************************************************************)
EXTENDS Integers, Sequences, FiniteSets, TLC

VARIABLES
    \* which entry point this behaviour calls, where the call stands, its outcome
    call, pc, ret,
    \* to_sqla: the list the Series is built from, the dtype asked for, the Series
    data, dtype, column,
    \* SNDF.reflect: the frame, the arguments, the outcome of a second call
    df, pk, dtypes, as_sql_stmt, ret2,
    \* LoopSmokeTester.monitor: the handler passed, the event loop (is_running(),
    \* unfinished tasks, time()), the locals of monitor and measure_lag, and the
    \* records the handler has received
    handler, running, active, clock, observed, polls, tasks, start, lag, wake, calls,
    \* nearest_future: the weekday argument and the date
    weekday, dt_in,
    \* reduce_mem_usage: the column as passed in and the column of the frame
    mem_before, mem_df

sqla_vars == <<data, dtype, column>>

reflect_vars == <<df, pk, dtypes, as_sql_stmt, ret2>>

monitor_vars ==
    <<handler, running, active, clock, observed, polls, tasks, start, lag, wake, calls>>

dattim_vars == <<weekday, dt_in>>

mem_vars == <<mem_before, mem_df>>

vars == <<call, pc, ret, sqla_vars, reflect_vars, monitor_vars, dattim_vars, mem_vars>>

(***************************************************************************)
(* Bounds.                                                                 *)
(***************************************************************************)
\* the longest list of values a Series is built from
MaxLen == 2
\* the largest number of columns of a DataFrame
MaxCols == 2
\* the largest number of unfinished tasks on the event loop
MaxTasks == 2
\* the largest reading of the event loop's clock, in seconds
MaxClock == 3
\* the largest number of iterations of the monitor loop
MaxPolls == 2
\* the number of days after the first date of a window that a date may lie
MaxDays == 8

(***************************************************************************)
(* Scalar values held by a Series.                                         *)
(***************************************************************************)
Val(k, tz, h, m, s, us) ==
    [k |-> k, tz |-> tz, hour |-> h, minute |-> m, second |-> s, microsecond |-> us]

Scalar(k) == Val(k, FALSE, 0, 0, 0, 0)

\* np.nan / None / NaT
Null == Scalar("null")

\* the times of day a datetime value may carry
TimesOfDay ==
    { <<0, 0, 0, 0>>, <<0, 30, 0, 0>>, <<1, 0, 0, 0>>, <<0, 0, 1, 0>>, <<0, 0, 0, 1>> }

TzTimesOfDay == { <<0, 0, 0, 0>>, <<1, 0, 0, 0>> }

Timestamp(tz, t) == Val("datetime", tz, t[1], t[2], t[3], t[4])

NaiveDatetimes == { Timestamp(FALSE, t) : t \in TimesOfDay }

AwareDatetimes == { Timestamp(TRUE, t) : t \in TzTimesOfDay }

PlainKinds ==
    { "int", "float", "bool", "str", "complex", "date", "time", "timedelta" }

Values ==
    {Null} \cup { Scalar(k) : k \in PlainKinds } \cup NaiveDatetimes \cup AwareDatetimes

IsNull(v) == v.k = "null"

IsMidnight(v) == v.hour = 0 /\ v.minute = 0 /\ v.second = 0 /\ v.microsecond = 0

(***************************************************************************)
(* Sequence helpers.                                                       *)
(***************************************************************************)
SeqsUpTo(S, n) == UNION { [1..k -> S] : k \in 0..n }

Range(s) == { s[i] : i \in DOMAIN s }

(***************************************************************************)
(* pandas Series: storage dtype and values.                                *)
(***************************************************************************)
MkSeries(d, vs) == [dtype |-> d, vals |-> vs]

FloatDtypes == { "float16", "float32", "float64" }

IntDtypes == { "int8", "int16", "int32", "int64" }

DatetimeDtypes == { "datetime64[ns]", "datetime64[ns, UTC]" }

\* the values that are not null, in order
RECURSIVE NonNull(_)
NonNull(vs) ==
    IF vs = <<>> THEN <<>>
    ELSE IF IsNull(Head(vs)) THEN NonNull(Tail(vs))
    ELSE <<Head(vs)>> \o NonNull(Tail(vs))

\* a numeric value stored in a floating (or complex) array becomes a value of that kind
CastTo(k, vs) ==
    [i \in DOMAIN vs |-> IF IsNull(vs[i]) THEN Null ELSE Scalar(k)]

\* pd.Series(values): the storage dtype pandas chooses for a list of values
Series(vs) ==
    LET nn    == NonNull(vs)
        kinds == { nn[i].k : i \in DOMAIN nn }
        nulls == Len(nn) < Len(vs)
    IN  IF vs = <<>> THEN MkSeries("object", vs)
        ELSE IF kinds = {} THEN MkSeries("float64", vs)
        ELSE IF kinds = {"int"} THEN
            IF nulls THEN MkSeries("float64", CastTo("float", vs))
            ELSE MkSeries("int64", vs)
        ELSE IF kinds \subseteq {"int", "float"} THEN
            MkSeries("float64", CastTo("float", vs))
        ELSE IF kinds \subseteq {"int", "float", "complex"} THEN
            MkSeries("complex128", CastTo("complex", vs))
        ELSE IF kinds = {"bool"} /\ ~nulls THEN MkSeries("bool", vs)
        ELSE IF kinds = {"timedelta"} THEN MkSeries("timedelta64[ns]", vs)
        ELSE IF kinds = {"datetime"} THEN
            IF \A i \in DOMAIN nn : ~nn[i].tz THEN MkSeries("datetime64[ns]", vs)
            ELSE IF \A i \in DOMAIN nn : nn[i].tz THEN
                MkSeries("datetime64[ns, UTC]", vs)
            ELSE MkSeries("object", vs)
        ELSE MkSeries("object", vs)

\* whether Series.astype(d) accepts the Series
CanCast(s, d) ==
    LET nn    == NonNull(s.vals)
        kinds == { nn[i].k : i \in DOMAIN nn }
    IN  \/ d = "object"
        \/ d \in FloatDtypes /\ kinds # {} /\ kinds \subseteq {"int", "float"}
        \/ d \in IntDtypes /\ kinds = {"int"} /\ Len(nn) = Len(s.vals)

\* Series.astype(d)
astype(s, d) ==
    IF d \in FloatDtypes THEN MkSeries(d, CastTo("float", s.vals))
    ELSE MkSeries(d, s.vals)

\* pd.Series(values, dtype=d); d = "None" leaves the dtype to pandas
SeriesOf(vs, d) ==
    IF d = "None" THEN Series(vs) ELSE astype(MkSeries("object", vs), d)

DtypeArgs == {"None", "object"} \cup FloatDtypes \cup IntDtypes

(***************************************************************************)
(* SQLAlchemy column types.                                                *)
(***************************************************************************)
SqlType(t, p, z) == [t |-> t, precision |-> p, timezone |-> z]

BigInteger == SqlType("BigInteger", 0, FALSE)

Integer == SqlType("Integer", 0, FALSE)

Text == SqlType("Text", 0, FALSE)

Boolean == SqlType("Boolean", 0, FALSE)

DateTime == SqlType("DateTime", 0, FALSE)

Date == SqlType("Date", 0, FALSE)

Time == SqlType("Time", 0, FALSE)

Float(precision) == SqlType("Float", precision, FALSE)

TIMESTAMP(timezone) == SqlType("TIMESTAMP", 0, timezone)

(***************************************************************************)
(* Outcomes of a call: a returned value or a raised exception.             *)
(***************************************************************************)
Return(v) == [kind |-> "return", exc |-> "", value |-> v]

Raise(e) == [kind |-> "raise", exc |-> e, value |-> <<>>]

NoResult == [kind |-> "none", exc |-> "", value |-> <<>>]

(***************************************************************************)
(* to_sqla.                                                                *)
(***************************************************************************)
\* column[column.notna()]: the storage dtype is kept
notna(c) == MkSeries(c.dtype, NonNull(c.vals))

\* pd._libs.lib.infer_dtype of an object array, nulls skipped
infer_object(vs) ==
    LET nn    == NonNull(vs)
        kinds == { nn[i].k : i \in DOMAIN nn }
        first == nn[1].k
    IN  IF nn = <<>> THEN "empty"
        ELSE IF first = "timedelta" /\ kinds = {"timedelta"} THEN "timedelta"
        ELSE IF first = "int" /\ kinds = {"int"} THEN "integer"
        ELSE IF first = "int" /\ kinds \subseteq {"int", "float"} THEN "mixed-integer-float"
        ELSE IF first = "int" THEN "mixed-integer"
        ELSE IF first = "datetime" /\ kinds = {"datetime"} THEN "datetime"
        ELSE IF first \in {"datetime", "date"} /\ kinds \subseteq {"datetime", "date"}
            THEN "date"
        ELSE IF first = "time" /\ kinds = {"time"} THEN "time"
        ELSE IF first = "complex" /\ kinds = {"complex"} THEN "complex"
        ELSE IF first = "float" /\ kinds = {"float"} THEN "floating"
        ELSE IF first = "float" /\ kinds \subseteq {"int", "float"} THEN "mixed-integer-float"
        ELSE IF first = "bool" /\ kinds = {"bool"} THEN "boolean"
        ELSE IF first = "str" /\ kinds = {"str"} THEN "string"
        ELSE IF "int" \in kinds THEN "mixed-integer"
        ELSE "mixed"

\* pd._libs.lib.infer_dtype(column): the storage dtype decides, and only an
\* object array is classified by its values
infer_dtype(c) ==
    IF c.dtype \in FloatDtypes THEN "floating"
    ELSE IF c.dtype \in IntDtypes THEN "integer"
    ELSE IF c.dtype = "bool" THEN "boolean"
    ELSE IF c.dtype \in DatetimeDtypes THEN "datetime64"
    ELSE IF c.dtype = "timedelta64[ns]" THEN "timedelta64"
    ELSE IF c.dtype = "complex128" THEN "complex"
    ELSE infer_object(c.vals)

\* whether column.dt exists: only datetime storage has the accessor, and on any
\* other Series both column.dt and column.tz raise AttributeError
has_dt(c) == c.dtype \in DatetimeDtypes

\* column.dt.tz is not None
dt_tz_is_not_None(c) == c.dtype = "datetime64[ns, UTC]"

\* (column.dt.hour == 0).all()
all_hour_is_zero(c) == \A i \in DOMAIN c.vals : c.vals[i].hour = 0

\* datetime_type with the midnight test ahead of the timezone test
datetime_type_midnight_first(c) ==
    IF ~has_dt(c) THEN Raise("AttributeError")
    ELSE IF all_hour_is_zero(c) THEN Return(Date)
    ELSE IF dt_tz_is_not_None(c) THEN Return(TIMESTAMP(TRUE))
    ELSE Return(DateTime)

\* the branch of datetime-like columns
datetime_type(c) ==
    IF ~has_dt(c) THEN Raise("AttributeError")
    ELSE IF dt_tz_is_not_None(c) THEN Return(TIMESTAMP(TRUE))
    ELSE IF all_hour_is_zero(c) THEN Return(Date)
    ELSE Return(DateTime)

\* the keys of the translation table
translation_keys ==
    { "timedelta64", "floating", "integer", "boolean", "date", "time", "complex" }

\* floating_type testing for float64 instead of float32
floating_type_by_float64(c) == IF c.dtype = "float64" THEN Float(53) ELSE Float(23)

floating_type(c) == IF c.dtype = "float32" THEN Float(23) ELSE Float(53)

\* integer_type testing for int64 instead of int32
integer_type_by_int64(c) == IF c.dtype = "int64" THEN BigInteger ELSE Integer

integer_type(c) == IF c.dtype = "int32" THEN Integer ELSE BigInteger

\* translated with the complex entry falling back to Text instead of raising
translated_complex_as_text(c, col_type) ==
    CASE col_type = "timedelta64" -> Return(BigInteger)
      [] col_type = "floating"    -> Return(floating_type(c))
      [] col_type = "integer"     -> Return(integer_type(c))
      [] col_type = "boolean"     -> Return(Boolean)
      [] col_type = "date"        -> Return(Date)
      [] col_type = "time"        -> Return(Time)
      [] col_type = "complex"     -> Return(Text)

\* translation[col_type] and what follows it, for a key of the table
translated(c, col_type) ==
    CASE col_type = "timedelta64" -> Return(BigInteger)
      [] col_type = "floating"    -> Return(floating_type(c))
      [] col_type = "integer"     -> Return(integer_type(c))
      [] col_type = "boolean"     -> Return(Boolean)
      [] col_type = "date"        -> Return(Date)
      [] col_type = "time"        -> Return(Time)
      [] col_type = "complex"     -> Raise("ValueError")

\* the type of a col_type the translation table does not hold
fallback_type == Text

to_sqla(c) ==
    LET col      == notna(c)
        col_type == infer_dtype(col)
    IN  IF col_type \in {"datetime64", "datetime"} THEN datetime_type(col)
        ELSE IF col_type \notin translation_keys THEN Return(fallback_type)
        ELSE translated(col, col_type)

(***************************************************************************)
(* Column names: strings as sequences of character codes.                  *)
(***************************************************************************)
\* str.lower() of one character
lower_char(ch) == IF ch >= 65 /\ ch <= 90 THEN ch + 32 ELSE ch

\* str.lower()
lower(str) == [i \in DOMAIN str |-> lower_char(str[i])]

\* "id", "Id", "ab": the names of columns
name_id == <<105, 100>>

name_Id == <<73, 100>>

name_ab == <<97, 98>>

\* "ID", "zz": further names a caller may pass
name_ID == <<73, 68>>

name_zz == <<122, 122>>

ColNames == { name_id, name_Id, name_ab }

(***************************************************************************)
(* SNDF.reflect.                                                           *)
(***************************************************************************)
\* the pk argument: None, one string, or a list of strings
PkArg(tag, str, list) == [tag |-> tag, s |-> str, l |-> list]

PkNone == PkArg("None", <<>>, <<>>)

PkStr(str) == PkArg("str", str, <<>>)

PkList(list) == PkArg("list", <<>>, list)

\* the dtypes argument: None or a dict from column name to type
DtypesArg(isNone, dict) == [isNone |-> isNone, d |-> dict]

DtypesNone == DtypesArg(TRUE, <<>>)

\* pk after the defaults: None is [], a string is a one-element list
pk_list(p) ==
    IF p.tag = "None" THEN <<>>
    ELSE IF p.tag = "str" THEN <<p.s>>
    ELSE p.l

\* dtypes after the default: None is {}
dtypes_dict(dt) == IF dt.isNone THEN <<>> ELSE dt.d

\* dict.get(key, default), default already evaluated by the caller
dict_get(d, key, default) == IF key \in DOMAIN d THEN d[key] ELSE default

\* is_pk without lowering the column name
is_pk_name_as_written(name, pks) == \E i \in DOMAIN pks : name = lower(pks[i])

\* name.lower() in map(lambda s: s.lower(), pk)
is_pk(name, pks) == \E i \in DOMAIN pks : lower(name) = lower(pks[i])

\* series_after_to_sqla had to_sqla dropped the nulls of the caller's Series in place
series_filtered_in_place(c) == notna(c)

\* the caller's Series after to_sqla: column = column[column.notna()] binds a new
\* Series to the local name and leaves the caller's as it was
series_after_to_sqla(c) == c

\* the frame after the loop of reflect, which hands each column to to_sqla until
\* one raises
RECURSIVE df_after_reflect(_)
df_after_reflect(frame) ==
    IF frame = <<>> THEN <<>>
    ELSE LET first == [Head(frame) EXCEPT !.series = series_after_to_sqla(@)]
         IN  IF to_sqla(Head(frame).series).kind = "raise"
             THEN <<first>> \o Tail(frame)
             ELSE <<first>> \o df_after_reflect(Tail(frame))

\* one iteration of the loop: to_sqla is evaluated before dtypes.get is called
name_and_type(col, pks, d) ==
    LET inferred == to_sqla(col.series)
    IN  IF inferred.kind = "raise" THEN inferred
        ELSE Return([name        |-> col.name,
                     type        |-> dict_get(d, col.name, inferred.value),
                     primary_key |-> is_pk(col.name, pks)])

\* c_name_and_types putting each column ahead of the ones before it
RECURSIVE c_name_and_types_prepending(_, _, _)
c_name_and_types_prepending(frame, pks, d) ==
    IF frame = <<>> THEN Return(<<>>)
    ELSE LET first == name_and_type(Head(frame), pks, d)
         IN  IF first.kind = "raise" THEN first
             ELSE LET rest == c_name_and_types_prepending(Tail(frame), pks, d)
                  IN  IF rest.kind = "raise" THEN rest
                      ELSE Return(rest.value \o <<first.value>>)

\* the loop over the columns: the first exception ends the call
RECURSIVE c_name_and_types(_, _, _)
c_name_and_types(frame, pks, d) ==
    IF frame = <<>> THEN Return(<<>>)
    ELSE LET first == name_and_type(Head(frame), pks, d)
         IN  IF first.kind = "raise" THEN first
             ELSE LET rest == c_name_and_types(Tail(frame), pks, d)
                  IN  IF rest.kind = "raise" THEN rest
                      ELSE Return(<<first.value>> \o rest.value)

\* sa.Table(table_name, sa.MetaData(), *columns)
Table(columns) == [kind |-> "Table", columns |-> columns, lines |-> <<>>]

Line(kind, name, type) == [kind |-> kind, name |-> name, type |-> type]

\* the names of the primary key columns, in column order
RECURSIVE pk_names(_)
pk_names(columns) ==
    IF columns = <<>> THEN <<>>
    ELSE (IF Head(columns).primary_key THEN <<Head(columns).name>> ELSE <<>>)
         \o pk_names(Tail(columns))

\* str(sa.schema.CreateTable(tbl).compile(dialect=bind.dialect)), line by line
CreateTable(columns) ==
    [kind    |-> "str",
     columns |-> <<>>,
     lines   |-> <<Line("CREATE TABLE", <<>>, Text)>>
                 \o [i \in DOMAIN columns |->
                        Line("column", columns[i].name, columns[i].type)]
                 \o (IF pk_names(columns) = <<>> THEN <<>>
                     ELSE <<Line("PRIMARY KEY", pk_names(columns), Text)>>)
                 \o <<Line(")", <<>>, Text)>>]

reflect(frame, p, dt, stmt) ==
    LET triples == c_name_and_types(frame, pk_list(p), dtypes_dict(dt))
    IN  IF triples.kind = "raise" THEN triples
        ELSE IF stmt THEN Return(CreateTable(triples.value))
        ELSE Return(Table(triples.value))

(***************************************************************************)
(* The inputs of the calls.                                                *)
(***************************************************************************)
\* the lists of values a Series is built from
DataLists == SeqsUpTo(Values, MaxLen)

\* the columns of a frame: two rows each, as the columns of the tests' frame
FrameSeries ==
    { Series(<<Scalar("int"), Scalar("int")>>),
      astype(Series(<<Scalar("float"), Scalar("float")>>), "float32"),
      Series(<<Null, Scalar("str")>>),
      Series(<<Timestamp(FALSE, <<0, 0, 0, 0>>), Timestamp(FALSE, <<0, 0, 0, 0>>)>>),
      Series(<<Null, Timestamp(TRUE, <<1, 0, 0, 0>>)>>),
      Series(<<Scalar("complex"), Scalar("complex")>>) }

FrameCols == [name : ColNames, series : FrameSeries]

\* DataFrames: columns with distinct names
Frames ==
    { f \in SeqsUpTo(FrameCols, MaxCols) :
        \A i, j \in DOMAIN f : f[i].name = f[j].name => i = j }

PkArgs ==
    { PkNone, PkStr(name_ID), PkStr(name_zz), PkList(<<>>), PkList(<<name_ab>>),
      PkList(<<name_ID, name_ab>>), PkList(<<name_zz, name_Id>>) }

Dict1(k, v) == [x \in {k} |-> v]

Dict2(k1, v1, k2, v2) == [x \in {k1, k2} |-> IF x = k1 THEN v1 ELSE v2]

DtypesArgs ==
    { DtypesNone, DtypesArg(FALSE, <<>>),
      DtypesArg(FALSE, Dict1(name_id, Integer)),
      DtypesArg(FALSE, Dict1(name_Id, Text)),
      DtypesArg(FALSE, Dict1(name_zz, Text)),
      DtypesArg(FALSE, Dict2(name_id, Text, name_ab, Integer)) }

(***************************************************************************)
(* nearest_future (sn/dattim.py). A date is its proleptic Gregorian        *)
(* ordinal, as datetime.date.toordinal() gives it.                         *)
(***************************************************************************)
\* 2020-02-01, the date of the docstring's example
ExampleDate == 737456

\* datetime.date.max, 9999-12-31: a date past it is an OverflowError
MaxOrdinal == 3652059

\* the weekday argument: a number or a name
WeekdayArg(tag, n, str) == [tag |-> tag, n |-> n, s |-> str]

WeekdayInt(n) == WeekdayArg("int", n, "")

WeekdayStr(str) == WeekdayArg("str", 0, str)

\* list(map(str.lower, calendar.day_name))
day_name ==
    << "monday", "tuesday", "wednesday", "thursday", "friday", "saturday", "sunday" >>

\* list.index(x), counted from 0
index(list, x) == (CHOOSE i \in DOMAIN list : list[i] = x) - 1

\* the weekday as a number: a name is looked up in day_name
weekday_number(w) == IF w.tag = "str" THEN index(day_name, w.s) ELSE w.n

\* datetime.weekday(): Monday is 0
dt_weekday(d) == (d + 6) % 7

\* ((weekday - dt.weekday()) + 7) % 7 with the operands the other way round
days_since(w, wd) == ((wd - w) + 7) % 7

\* days = ((weekday - dt.weekday()) + 7) % 7
days_until(w, wd) == ((w - wd) + 7) % 7

\* dt + datetime.timedelta(days)
date_add(d, days) ==
    IF d + days > MaxOrdinal THEN Raise("OverflowError") ELSE Return(d + days)

\* nearest_future(weekday)(dt)
nearest_future(w, d) ==
    date_add(d, days_until(weekday_number(w), dt_weekday(d)))

WeekdayArgs ==
    { WeekdayInt(n) : n \in 0..6 } \cup { WeekdayStr(day_name[i]) : i \in DOMAIN day_name }

\* the days around the example and the last days of the calendar
Dates ==
    (ExampleDate - 1)..(ExampleDate - 1 + MaxDays) \cup (MaxOrdinal - MaxDays)..MaxOrdinal

InitNearestFuture ==
    /\ call = "nearest_future"
    /\ weekday \in WeekdayArgs
    /\ dt_in \in Dates

CallNearestFuture ==
    /\ call = "nearest_future"
    /\ pc = "start"
    /\ ret' = nearest_future(weekday, dt_in)
    /\ pc' = "done"
    /\ UNCHANGED <<call, sqla_vars, reflect_vars, monitor_vars, dattim_vars, mem_vars>>

(***************************************************************************)
(* reduce_mem_usage (sn/dataframe.py). A value of an integer column is a   *)
(* 64-bit two's complement number, written as four 16-bit limbs, the most  *)
(* significant first, so that the values at the ends of every width can be *)
(* told apart.                                                             *)
(***************************************************************************)
Base == 2^16

Half == 2^15

Top == Base - 1

\* the number n, -2^8 < n < 2^8, as limbs
small(n) == IF n < 0 THEN <<Top, Top, Top, Base + n>> ELSE <<0, 0, 0, n>>

\* a + 1 and a - 1, within 64 bits
inc(a) ==
    IF a[4] < Top THEN <<a[1], a[2], a[3], a[4] + 1>>
    ELSE IF a[3] < Top THEN <<a[1], a[2], a[3] + 1, 0>>
    ELSE IF a[2] < Top THEN <<a[1], a[2] + 1, 0, 0>>
    ELSE <<(a[1] + 1) % Base, 0, 0, 0>>

dec(a) ==
    IF a[4] > 0 THEN <<a[1], a[2], a[3], a[4] - 1>>
    ELSE IF a[3] > 0 THEN <<a[1], a[2], a[3] - 1, Top>>
    ELSE IF a[2] > 0 THEN <<a[1], a[2] - 1, Top, Top>>
    ELSE <<(a[1] + Top) % Base, Top, Top, Top>>

\* a < b as signed numbers: the sign bit is the top bit of the first limb
int_lt(a, b) ==
    LET key(v) == <<(v[1] + Half) % Base, v[2], v[3], v[4]>>
    IN  \E i \in 1..4 :
            /\ key(a)[i] < key(b)[i]
            /\ \A j \in 1..(i - 1) : key(a)[j] = key(b)[j]

\* np.iinfo(dtype).min and np.iinfo(dtype).max
iinfo_min(d) ==
    CASE d = "int8"  -> <<Top, Top, Top, Base - 2^7>>
      [] d = "int16" -> <<Top, Top, Top, Half>>
      [] d = "int32" -> <<Top, Top, Half, 0>>
      [] d = "int64" -> <<Half, 0, 0, 0>>

iinfo_max(d) ==
    CASE d = "int8"  -> <<0, 0, 0, 2^7 - 1>>
      [] d = "int16" -> <<0, 0, 0, Half - 1>>
      [] d = "int32" -> <<0, 0, Half - 1, Top>>
      [] d = "int64" -> <<Half - 1, Top, Top, Top>>

\* ndarray.astype of one integer: the low bits of the value are kept and read
\* as a signed number of the new width
int_astype(v, d) ==
    CASE d = "int8" ->
            LET low == v[4] % 2^8
            IN  IF low >= 2^7 THEN <<Top, Top, Top, Base - 2^8 + low>>
                ELSE <<0, 0, 0, low>>
      [] d = "int16" ->
            IF v[4] >= Half THEN <<Top, Top, Top, v[4]>> ELSE <<0, 0, 0, v[4]>>
      [] d = "int32" ->
            IF v[3] >= Half THEN <<Top, Top, v[3], v[4]>> ELSE <<0, 0, v[3], v[4]>>
      [] d = "int64" -> v

\* df[col].astype(dtype) of an integer column
column_astype(c, d) ==
    MkSeries(d, [i \in DOMAIN c.vals |-> int_astype(c.vals[i], d)])

\* df[col].min() and df[col].max()
column_min(c) ==
    CHOOSE v \in Range(c.vals) : \A u \in Range(c.vals) : ~int_lt(u, v)

column_max(c) ==
    CHOOSE v \in Range(c.vals) : \A u \in Range(c.vals) : ~int_lt(v, u)

\* the test of a width with the test of the maximum left out
in_range_by_min(d, c_min, c_max) == int_lt(iinfo_min(d), c_min)

\* c_min > np.iinfo(dtype).min and c_max < np.iinfo(dtype).max
in_range(d, c_min, c_max) ==
    int_lt(iinfo_min(d), c_min) /\ int_lt(c_max, iinfo_max(d))

\* str(col_type)[:3] == 'int'
is_int_name(d) == d \in { "int8", "int16", "int32", "int64" }

\* the body of the loop for one column; columns of a floating dtype are not
\* among the frames drawn
reduce_column(c) ==
    IF c.dtype # "object"
    THEN LET c_min == column_min(c)
             c_max == column_max(c)
         IN  IF is_int_name(c.dtype)
             THEN IF in_range("int8", c_min, c_max) THEN column_astype(c, "int8")
                  ELSE IF in_range("int16", c_min, c_max) THEN column_astype(c, "int16")
                  ELSE IF in_range("int32", c_min, c_max) THEN column_astype(c, "int32")
                  ELSE IF in_range("int64", c_min, c_max) THEN column_astype(c, "int64")
                  ELSE c
             ELSE c
    ELSE MkSeries("category", c.vals)

\* reduce_mem_usage(df): every column in turn
reduce_mem_usage(frame) == [i \in DOMAIN frame |-> reduce_column(frame[i])]

\* the numbers at and next to the ends of every width, and zero
IntValues ==
    { small(0) }
    \cup UNION { { iinfo_min(d), inc(iinfo_min(d)), dec(iinfo_max(d)), iinfo_max(d) }
                 : d \in IntDtypes }
    \cup UNION { { dec(iinfo_min(d)), inc(iinfo_max(d)) } : d \in IntDtypes \ {"int64"} }

\* the numbers a column of dtype d can hold
ValuesOf(d) == { v \in IntValues : int_astype(v, d) = v }

IntColumns ==
    UNION { { MkSeries(d, vs) : vs \in SeqsUpTo(ValuesOf(d), MaxLen) \ { <<>> } }
            : d \in IntDtypes }

ObjectColumn == MkSeries("object", << Scalar("str"), Null >>)

\* one-row columns, for the frames of more than one column
OneRowColumns ==
    { MkSeries("int64", <<v>>) : v \in IntValues } \cup { ObjectColumn }

MemFrames ==
    { <<c>> : c \in IntColumns } \cup (SeqsUpTo(OneRowColumns, MaxCols) \ { <<>> })

InitReduceMemUsage ==
    /\ call = "reduce_mem_usage"
    /\ mem_df \in MemFrames
    /\ mem_before = mem_df

CallReduceMemUsage ==
    /\ call = "reduce_mem_usage"
    /\ pc = "start"
    /\ mem_df' = reduce_mem_usage(mem_df)
    /\ ret' = Return(mem_df')
    /\ pc' = "done"
    /\ UNCHANGED <<call, sqla_vars, reflect_vars, monitor_vars, dattim_vars, mem_before>>

(***************************************************************************)
(* Placeholders of the entry points modelled further on.                   *)
(***************************************************************************)
MonitorIdle ==
    /\ handler = "None"
    /\ running = FALSE
    /\ active = 0
    /\ clock = 0
    /\ observed = FALSE
    /\ polls = 0
    /\ tasks = 0
    /\ start = 0
    /\ lag = 0
    /\ wake = 0
    /\ calls = <<>>

DattimIdle ==
    /\ weekday = WeekdayInt(0)
    /\ dt_in = 0

MemIdle ==
    /\ mem_before = <<>>
    /\ mem_df = <<>>

(***************************************************************************)
(* LoopSmokeTester.monitor (sn/async_.py).                                 *)
(***************************************************************************)
\* the record handed to the handler; local_time is a datetime.datetime
monitor_data(now, n, l) ==
    [local_time |-> Scalar("datetime"), loop_time |-> now,
     number_active_tasks |-> n, lag |-> l]

\* json.dumps(data, indent=4): a datetime is not JSON serializable
json_dumps(d) ==
    IF d.local_time.k \in {"datetime", "date", "time", "timedelta", "complex"}
    THEN Raise("TypeError")
    ELSE Return("str")

\* handler(data) of the default handler: log.info of an f-string that calls json.dumps
default_handler(d) ==
    IF json_dumps(d).kind = "raise" THEN json_dumps(d) ELSE Return("None")

\* measure_lag: loop.time() - start - interval, with interval = 0
measured_lag(now, started) == now - started - 0

\* what a step of monitor leaves alone
not_monitor == <<call, sqla_vars, reflect_vars, dattim_vars, mem_vars>>

InitMonitor ==
    /\ call = "monitor"
    /\ handler \in {"None", "custom"}
    /\ running \in BOOLEAN
    /\ active \in 0..MaxTasks
    /\ clock = 0
    /\ observed = FALSE
    /\ polls = 0
    /\ tasks = 0
    /\ start = 0
    /\ lag = 0
    /\ wake = 0
    /\ calls = <<>>

\* monitor is entered: a handler of None becomes the default handler
MonitorEnter ==
    /\ call = "monitor"
    /\ pc = "start"
    /\ handler' = IF handler = "None" THEN "default" ELSE handler
    /\ pc' = "while"
    /\ UNCHANGED <<ret, running, active, clock, observed, polls, tasks, start, lag,
                   wake, calls>>
    /\ UNCHANGED not_monitor

\* while self.loop.is_running()
MonitorWhile ==
    /\ call = "monitor"
    /\ pc = "while"
    /\ running => polls < MaxPolls
    /\ observed' = running
    /\ IF running
       THEN pc' = "count" /\ polls' = polls + 1 /\ ret' = ret
       ELSE pc' = "done" /\ polls' = polls /\ ret' = Return("None")
    /\ UNCHANGED <<handler, running, active, clock, tasks, start, lag, wake, calls>>
    /\ UNCHANGED not_monitor

\* tasks = await self.count_active_tasks(): no suspension inside
MonitorCount ==
    /\ call = "monitor"
    /\ pc = "count"
    /\ tasks' = active
    /\ pc' = "lag"
    /\ UNCHANGED <<ret, handler, running, active, clock, observed, polls, start, lag,
                   wake, calls>>
    /\ UNCHANGED not_monitor

\* measure_lag up to its await: start = self.loop.time(); await asyncio.sleep(0)
MonitorLagStart ==
    /\ call = "monitor"
    /\ pc = "lag"
    /\ start' = clock
    /\ pc' = "lag_sleep"
    /\ UNCHANGED <<ret, handler, running, active, clock, observed, polls, tasks, lag,
                   wake, calls>>
    /\ UNCHANGED not_monitor

\* measure_lag resumed: lag = self.loop.time() - start - interval
MonitorLagResume ==
    /\ call = "monitor"
    /\ pc = "lag_sleep"
    /\ lag' = measured_lag(clock, start)
    /\ pc' = "handler"
    /\ UNCHANGED <<ret, handler, running, active, clock, observed, polls, tasks, start,
                   wake, calls>>
    /\ UNCHANGED not_monitor

\* data = {...}; handler(data); await asyncio.sleep(1) up to its suspension
MonitorHandler ==
    /\ call = "monitor"
    /\ pc = "handler"
    /\ LET d == monitor_data(clock, tasks, lag)
       IN  IF handler = "default" /\ default_handler(d).kind = "raise"
           THEN /\ ret' = default_handler(d)
                /\ pc' = "done"
                /\ UNCHANGED <<calls, wake>>
           ELSE /\ calls' = Append(calls, d)
                /\ wake' = clock + 1
                /\ pc' = "sleep"
                /\ ret' = ret
    /\ UNCHANGED <<handler, running, active, clock, observed, polls, tasks, start, lag>>
    /\ UNCHANGED not_monitor

\* asyncio.sleep(1) is over
MonitorSleepResume ==
    /\ call = "monitor"
    /\ pc = "sleep"
    /\ clock >= wake
    /\ pc' = "while"
    /\ UNCHANGED <<ret, monitor_vars>>
    /\ UNCHANGED not_monitor

\* while monitor is suspended the event loop runs other tasks: time passes, tasks
\* start and finish, the loop may be stopped or started
LoopRuns ==
    /\ call = "monitor"
    /\ pc \in {"lag_sleep", "sleep"}
    /\ \E r \in BOOLEAN, n \in 0..MaxTasks, t \in clock..MaxClock :
            /\ running' = r
            /\ active' = n
            /\ clock' = t
    /\ UNCHANGED <<pc, ret, handler, observed, polls, tasks, start, lag, wake, calls>>
    /\ UNCHANGED not_monitor

(***************************************************************************)
(* The state machine: one entry point of the library is called.            *)
(***************************************************************************)
SqlaIdle ==
    /\ data = <<>>
    /\ dtype = "None"
    /\ column = Series(<<>>)

ReflectIdle ==
    /\ df = <<>>
    /\ pk = PkNone
    /\ dtypes = DtypesNone
    /\ as_sql_stmt = FALSE
    /\ ret2 = NoResult

InitToSqla ==
    /\ call = "to_sqla"
    /\ data \in DataLists
    /\ dtype \in DtypeArgs
    /\ dtype # "None" => CanCast(MkSeries("object", data), dtype)
    /\ column = SeriesOf(data, dtype)
    /\ ReflectIdle
    /\ MonitorIdle
    /\ DattimIdle
    /\ MemIdle

InitReflect ==
    /\ call = "reflect"
    /\ SqlaIdle
    /\ df \in Frames
    /\ pk \in PkArgs
    /\ dtypes \in DtypesArgs
    /\ as_sql_stmt \in BOOLEAN
    /\ ret2 = NoResult
    /\ MonitorIdle
    /\ DattimIdle
    /\ MemIdle

Init ==
    /\ pc = "start"
    /\ ret = NoResult
    /\ \/ InitToSqla
       \/ InitReflect
       \/ InitMonitor /\ SqlaIdle /\ ReflectIdle /\ DattimIdle /\ MemIdle
       \/ InitNearestFuture /\ SqlaIdle /\ ReflectIdle /\ MonitorIdle /\ MemIdle
       \/ InitReduceMemUsage /\ SqlaIdle /\ ReflectIdle /\ MonitorIdle /\ DattimIdle

CallToSqla ==
    /\ pc = "start"
    /\ call = "to_sqla"
    /\ ret' = to_sqla(column)
    /\ column' = series_after_to_sqla(column)
    /\ pc' = "done"
    /\ UNCHANGED <<call, data, dtype, reflect_vars, monitor_vars, dattim_vars, mem_vars>>

CallReflect ==
    /\ pc = "start"
    /\ call = "reflect"
    /\ ret' = reflect(df, pk, dtypes, as_sql_stmt)
    /\ df' = df_after_reflect(df)
    /\ pc' = "done"
    /\ UNCHANGED <<call, sqla_vars, pk, dtypes, as_sql_stmt, ret2,
                   monitor_vars, dattim_vars, mem_vars>>

\* the same call once more, on the frame and the arguments as the first call left them
CallReflectAgain ==
    /\ pc = "done"
    /\ call = "reflect"
    /\ ret2' = reflect(df, pk, dtypes, as_sql_stmt)
    /\ df' = df_after_reflect(df)
    /\ pc' = "done2"
    /\ UNCHANGED <<call, ret, sqla_vars, pk, dtypes, as_sql_stmt,
                   monitor_vars, dattim_vars, mem_vars>>

Next ==
    \/ CallToSqla
    \/ CallReflect
    \/ CallReflectAgain
    \/ MonitorEnter
    \/ MonitorWhile
    \/ MonitorCount
    \/ MonitorLagStart
    \/ MonitorLagResume
    \/ MonitorHandler
    \/ MonitorSleepResume
    \/ LoopRuns
    \/ CallNearestFuture
    \/ CallReduceMemUsage

Spec == Init /\ [][Next]_vars

(***************************************************************************)
(* Vocabulary of the properties.                                           *)
(***************************************************************************)
Done(c) == call = c /\ pc = "done"

NonNullKinds(vs) == { NonNull(vs)[i].k : i \in DOMAIN NonNull(vs) }

AllNull(vs) == vs # <<>> /\ NonNull(vs) = <<>>

\* a column whose non-null values are complex numbers
IsComplexColumn(c) == NonNullKinds(c.vals) = {"complex"}

\* the (name, type, primary_key) entries of a returned schema
SchemaColumns(v) == v.columns

\* the columns of df that dtypes overrides
Overridden(i) == df[i].name \in DOMAIN dtypes_dict(dtypes)

\* two strings are equal up to the case of their letters
SameLetter(a, b) ==
    \/ a = b
    \/ a >= 65 /\ a <= 90 /\ b = a + 32
    \/ b >= 65 /\ b <= 90 /\ a = b + 32

EqualIgnoringCase(x, y) ==
    /\ Len(x) = Len(y)
    /\ \A i \in DOMAIN x : SameLetter(x[i], y[i])

\* the entries of the pk argument as the caller wrote it
PkEntries ==
    IF pk.tag = "str" THEN {pk.s}
    ELSE IF pk.tag = "list" THEN Range(pk.l)
    ELSE {}

(***************************************************************************)
(* C1: in SNDF.reflect, a column with an entry in dtypes is not passed to  *)
(* to_sqla: its type is the override, and overriding every column that     *)
(* to_sqla rejects makes the call succeed.                                 *)
(***************************************************************************)
C1_OverrideSkipsInference ==
    (/\ Done("reflect")
     /\ \A i \in DOMAIN df :
            to_sqla(df[i].series).kind = "raise" => Overridden(i))
    => /\ ret.kind = "return"
       /\ ~as_sql_stmt =>
            \A i \in DOMAIN df :
                Overridden(i) =>
                    SchemaColumns(ret.value)[i].type = dtypes_dict(dtypes)[df[i].name]

(***************************************************************************)
(* C2: for a timezone-naive datetime column, to_sqla returns Date if and   *)
(* only if every non-null value is exactly at midnight, and DateTime       *)
(* otherwise.                                                              *)
(***************************************************************************)
C2_DateIffAllMidnight ==
    (Done("to_sqla") /\ column.dtype = "datetime64[ns]")
    => LET nn == NonNull(column.vals)
       IN  IF \A i \in DOMAIN nn : IsMidnight(nn[i])
           THEN ret = Return(Date)
           ELSE ret = Return(DateTime)

(***************************************************************************)
(* C3: for a column whose values are all null, whatever its storage dtype, *)
(* to_sqla returns Text.                                                   *)
(***************************************************************************)
C3_AllNullIsText ==
    (Done("to_sqla") /\ AllNull(column.vals)) => ret = Return(Text)

(***************************************************************************)
(* C4: null markers do not influence inference: the type of a column built *)
(* from values some of which are null markers is the type of the column    *)
(* built from the non-null values alone.                                   *)
(***************************************************************************)
C4_NullsDoNotInfluence ==
    (Done("to_sqla") /\ dtype = "None" /\ NonNull(data) # <<>>)
    => ret = to_sqla(SeriesOf(NonNull(data), dtype))

C6_OnlyComplexRaises ==
    (Done("to_sqla") /\ ~IsComplexColumn(column)) => ret.kind = "return"

(***************************************************************************)
(* C7: to_sqla raises ValueError for a column whose non-null values are    *)
(* complex numbers, and SNDF.reflect raises it for a frame that holds such *)
(* a column without an override, at whatever position.                     *)
(***************************************************************************)
C7_ComplexRaises ==
    /\ (Done("to_sqla") /\ IsComplexColumn(column)) => ret = Raise("ValueError")
    /\ (/\ Done("reflect")
        /\ \E i \in DOMAIN df : IsComplexColumn(df[i].series) /\ ~Overridden(i))
       => ret = Raise("ValueError")

C7_Witness ==
    /\ Done("reflect")
    /\ Len(df) >= 2
    /\ IsComplexColumn(df[Len(df)].series)
    /\ ~IsComplexColumn(df[1].series)
    /\ ~Overridden(Len(df))
    /\ ret = Raise("ValueError")

(***************************************************************************)
(* C8: for an integer column, to_sqla returns Integer exactly when the     *)
(* storage is 32 bits wide and BigInteger otherwise, and the type returned *)
(* is never narrower than the storage.                                     *)
(***************************************************************************)
StorageBits(d) ==
    CASE d = "int8" -> 8 [] d = "int16" -> 16 [] d = "int32" -> 32 [] d = "int64" -> 64

TypeBits(t) == IF t = Integer THEN 32 ELSE 64

C8_IntegerWidth ==
    (Done("to_sqla") /\ infer_dtype(notna(column)) = "integer")
    => /\ ret.kind = "return"
       /\ ret.value \in {Integer, BigInteger}
       /\ ret.value = Integer <=> column.dtype = "int32"
       /\ column.dtype \in IntDtypes => TypeBits(ret.value) >= StorageBits(column.dtype)

C8_Witness ==
    /\ Done("to_sqla")
    /\ column.dtype = "int32"
    /\ column.vals # <<>>
    /\ ret = Return(Integer)

(***************************************************************************)
(* C9: for a floating column, to_sqla returns Float(precision=23) exactly  *)
(* when the storage is float32, and Float(precision=53) otherwise.         *)
(***************************************************************************)
C9_FloatPrecision ==
    (Done("to_sqla") /\ infer_dtype(notna(column)) = "floating")
    => IF column.dtype = "float32"
       THEN ret = Return(Float(23))
       ELSE ret = Return(Float(53))

C9_Witness ==
    /\ Done("to_sqla")
    /\ column.dtype = "float32"
    /\ NonNull(column.vals) # <<>>
    /\ ret = Return(Float(23))

(***************************************************************************)
(* C10: in SNDF.reflect, a column is marked primary key if and only if its *)
(* name equals some entry of pk up to letter case, a pk string counting as *)
(* a one-element list; several columns may be marked, and entries that     *)
(* match no column are ignored.                                            *)
(***************************************************************************)
\* the columns of df whose name some entry of pk equals up to letter case
PkMatches ==
    { i \in DOMAIN df : \E e \in PkEntries : EqualIgnoringCase(df[i].name, e) }

\* the names listed by the PRIMARY KEY line of a statement
StatementPkNames(v) ==
    UNION { Range(v.lines[i].name) :
                i \in { j \in DOMAIN v.lines : v.lines[j].kind = "PRIMARY KEY" } }

C10_PrimaryKeyIgnoresCase ==
    (Done("reflect") /\ ret.kind = "return")
    => IF as_sql_stmt
       THEN StatementPkNames(ret.value) = { df[i].name : i \in PkMatches }
       ELSE /\ Len(SchemaColumns(ret.value)) = Len(df)
            /\ \A i \in DOMAIN df :
                    SchemaColumns(ret.value)[i].primary_key <=> i \in PkMatches

C10_Witness ==
    /\ Done("reflect")
    /\ ret.kind = "return"
    /\ ~as_sql_stmt
    /\ \E i, j \in DOMAIN df :
            /\ i # j
            /\ SchemaColumns(ret.value)[i].primary_key
            /\ SchemaColumns(ret.value)[j].primary_key
            /\ df[i].name \notin PkEntries
    /\ \E e \in PkEntries : \A i \in DOMAIN df : ~EqualIgnoringCase(df[i].name, e)

(***************************************************************************)
(* C11: for a frame with distinct column names and any pk, dtypes and      *)
(* as_sql_stmt, the schema SNDF.reflect produces has one entry per column  *)
(* of the frame, with the names of the frame in the order of the frame,    *)
(* in the Table and in the CREATE TABLE text alike.                        *)
(***************************************************************************)
\* the lines of a statement that the tests count as columns: all but the last
\* line and the CREATE TABLE and PRIMARY KEY lines
RECURSIVE ColumnLines(_)
ColumnLines(lines) ==
    IF lines = <<>> THEN <<>>
    ELSE (IF Head(lines).kind \in {"CREATE TABLE", "PRIMARY KEY"} THEN <<>>
          ELSE <<Head(lines)>>) \o ColumnLines(Tail(lines))

\* the column names a result carries, in order
ResultNames(v) ==
    IF v.kind = "Table" THEN [i \in DOMAIN v.columns |-> v.columns[i].name]
    ELSE LET cl == ColumnLines(SubSeq(v.lines, 1, Len(v.lines) - 1))
         IN  [i \in DOMAIN cl |-> cl[i].name]

C11_OneEntryPerColumn ==
    (Done("reflect") /\ ret.kind = "return")
    => /\ ret.value.kind = (IF as_sql_stmt THEN "str" ELSE "Table")
       /\ ResultNames(ret.value) = [i \in DOMAIN df |-> df[i].name]

C11_Witness ==
    /\ Done("reflect")
    /\ ret.kind = "return"
    /\ as_sql_stmt
    /\ Len(df) >= 2
    /\ PkMatches # {}
    /\ \E i \in DOMAIN df : Overridden(i)
    /\ Len(ResultNames(ret.value)) = Len(df)

C13_MonitorPolls ==
    call = "monitor"
    => /\ pc \in {"count", "lag", "lag_sleep", "handler"} => Len(calls) = polls - 1
       /\ pc \in {"while", "sleep"} => Len(calls) = polls
       /\ pc = "sleep"
            => /\ calls[Len(calls)].number_active_tasks = tasks
               /\ calls[Len(calls)].lag = lag
               /\ wake = calls[Len(calls)].loop_time + 1
       /\ pc = "done" => ret = Return("None") /\ ~observed /\ Len(calls) = polls

\* C13 for a handler that returns: the order of an iteration as the claim gives it
C13_CustomHandlerPolls == handler = "custom" => C13_MonitorPolls

(***************************************************************************)
(* C14: for every weekday w, given as 0..6 or as its lowercase English     *)
(* name, and every date dt, nearest_future(w)(dt) falls on weekday w, lies *)
(* 0 to 6 days after dt, and is dt itself when dt falls on w; 2020-02-01   *)
(* with 'sunday' gives 2020-02-02.                                         *)
(***************************************************************************)
\* the number of the weekday the caller named
TargetWeekday ==
    IF weekday.tag = "int" THEN weekday.n
    ELSE CASE weekday.s = "monday"    -> 0
           [] weekday.s = "tuesday"   -> 1
           [] weekday.s = "wednesday" -> 2
           [] weekday.s = "thursday"  -> 3
           [] weekday.s = "friday"    -> 4
           [] weekday.s = "saturday"  -> 5
           [] weekday.s = "sunday"    -> 6

\* the result is the first date on the target weekday from dt on
IsNearestFuture ==
    /\ ret.kind = "return"
    /\ dt_weekday(ret.value) = TargetWeekday
    /\ ret.value - dt_in \in 0..6
    /\ dt_weekday(dt_in) = TargetWeekday => ret.value = dt_in
    /\ (dt_in = ExampleDate /\ weekday = WeekdayStr("sunday"))
         => ret.value = ExampleDate + 1

\* C14 as stated, for every date: nearest_future returns the first date on
\* the target weekday from dt on.
C14_NearestFutureEveryDate ==
    Done("nearest_future") => IsNearestFuture

\* C14 amended: for every date at least 6 days before the last date of the
\* calendar, nearest_future returns the first date on the target weekday from
\* dt on; in the last 6 days it does so or raises OverflowError.
C14_NearestFutureWeekday ==
    Done("nearest_future")
    => /\ dt_in + 6 <= MaxOrdinal => IsNearestFuture
       /\ ret.kind = "return" => IsNearestFuture
       /\ ret.kind = "raise" => ret = Raise("OverflowError")

C14_Witness ==
    /\ Done("nearest_future")
    /\ dt_in = ExampleDate
    /\ weekday = WeekdayStr("sunday")
    /\ ret = Return(ExampleDate + 1)

(***************************************************************************)
(* C15: reduce_mem_usage never changes the value of an integer: for every  *)
(* signed-integer column, the width it is cast to has a range that holds   *)
(* the column's minimum and maximum, and every value after the call is the *)
(* value before it, the ends of a width such as 127 and -128 included.     *)
(***************************************************************************)
IntColumnsOf(frame) == { i \in DOMAIN frame : frame[i].dtype \in IntDtypes }

\* iinfo(d).min <= v <= iinfo(d).max
WithinWidth(v, d) == ~int_lt(v, iinfo_min(d)) /\ ~int_lt(iinfo_max(d), v)

C15_IntegersKeepTheirValue ==
    Done("reduce_mem_usage")
    => \A i \in IntColumnsOf(mem_before) :
          /\ mem_df[i].dtype \in IntDtypes
          /\ \A v \in Range(mem_before[i].vals) : WithinWidth(v, mem_df[i].dtype)
          /\ mem_df[i].vals = mem_before[i].vals

\* an int8 column holding 127 and -128 has been through the call
C15_Witness ==
    /\ Done("reduce_mem_usage")
    /\ mem_before = << MkSeries("int8", << iinfo_max("int8"), iinfo_min("int8") >>) >>
    /\ mem_df = << MkSeries("int16", << small(127), small(0 - 128) >>) >>

====
